---- MODULE Spec2Model ----
(***************************************************************************)
(* Membership and attendance ledgers of clubspace.                         *)
(*                                                                         *)
(* The club service (clubService: createClub, joinClub, leaveClub,         *)
(* updateMemberRole, removeMember, deleteClub) and the event service       *)
(* (eventService: createEvent, updateRSVP, updateEventAttendeeCount,       *)
(* getRSVPSummary) are modelled against a Firestore-like document store:   *)
(* point reads, equality queries, updateDoc (fails on a missing document)  *)
(* and writeBatch (set / update / delete / increment, committed            *)
(* all-or-nothing, the commit itself may fail).  Every `await` of a        *)
(* service function is a point where calls of other clients interleave,    *)
(* so a call is one action per awaited store round trip.                   *)
(***************************************************************************)
EXTENDS Integers, FiniteSets, Sequences, TLC

\* ------------------------------------------------------------------ bounds
\* Start guard of the calls that raise a club's counters.
MaxCount == 3
\* Document ids the rsvps collection can hand out (auto-generated ids).
MaxDocs == 3
\* Most listeners registered in one session of the event store.
MaxListeners == 3
\* Most calls of one returned unsubscribe function by its holder.
MaxStops == 2
\* Largest maxRetries option given to fetchWithRetry.
MaxRetries == 2

\* ------------------------------------------------------------- input sets
Users == {"u1", "u2", "u3"}
ClubIds == {"c1"}
\* The ids generateClubId can hand out.
AllClubIds == {"c1", "c2"}
\* The users who create clubs.
Creators == {"u1"}
EventIds == {"e1", "e2"}
\* The users who answer events ("" is a missing uid).
Attendees == {"u1", "u2"}
\* status as passed to updateRSVP; "maybe" is not an RSVP status.
StatusInputs == {"going", "not_going", "maybe"}
Procs == {"p1", "p2"}
\* type ClubRole
Roles == {"owner", "organizer", "member", "guest"}
\* Status codes of responses: 0 (opaque response), ok, and errors on both
\* sides of the 5xx range.
Statuses == {0, 200, 304, 404, 500, 599}
\* retryCondition options: the default and two predicates of a caller.
RetryConditions == {"default", "never", "always"}
\* maxMembers as given to createClub: absent (<<>>) or a number.
MaxMembersInputs == {<<>>, <<2>>}

\* ------------------------------------------------------- permission table
NoPermissions ==
  [canCreateEvents |-> FALSE, canEditClub |-> FALSE, canManageMembers |-> FALSE,
   canDeletePosts |-> FALSE, canSendAnnouncements |-> FALSE, canAccessFinances |-> FALSE]

DEFAULT_PERMISSIONS ==
  [r \in Roles |->
     CASE r = "owner" ->
            [canCreateEvents |-> TRUE, canEditClub |-> TRUE, canManageMembers |-> TRUE,
             canDeletePosts |-> TRUE, canSendAnnouncements |-> TRUE, canAccessFinances |-> TRUE]
       [] r = "organizer" ->
            [canCreateEvents |-> TRUE, canEditClub |-> FALSE, canManageMembers |-> TRUE,
             canDeletePosts |-> TRUE, canSendAnnouncements |-> TRUE, canAccessFinances |-> FALSE]
       [] r = "member" -> NoPermissions
       [] r = "guest" -> NoPermissions]

\* ------------------------------------------------------------------ state
VARIABLES
  clubs,     \* collection 'clubs': clubId -> [ownerUid, status, memberCount, maxMembers]
  members,   \* collection 'clubMembers': <<clubId, uid>> -> [role, status, permissions]
  stats,     \* collection 'clubStats': clubId -> [totalMembers, activeMembers]
  events,    \* collection 'events': eventId -> [currentAttendees, status]
  rsvps,     \* collection 'rsvps': document id -> [eventId, uid, status]
  calls,     \* per client: the service call in flight between two awaits
  last,      \* the call that completed in the last step, with what its caller saw
  prevRsvp,  \* arguments of the updateRSVP call that returned most recently
  clubStore, \* the club store of one browser session: [currentClub, clubMembers]
  permissionCheck,  \* the last checkPermissions call (none: <<>>): arguments and result
  eventStore, \* the event store's listeners: [listeners, unsubscribes]
  fetchCall   \* one fetchWithRetry call: its locals and how it ended

vars == <<clubs, members, stats, events, rsvps, calls, last, prevRsvp,
          clubStore, permissionCheck, eventStore, fetchCall>>

\* The documents.
store == <<clubs, members, stats, events, rsvps>>

\* The state of the client-side store, which no service function touches.
storeVars == <<clubStore, permissionCheck, eventStore, fetchCall>>

\* What the service calls of the clients read and write.
serviceVars == <<clubs, members, stats, events, rsvps, calls, last, prevRsvp>>

Idle == [op |-> "idle"]

NoCall == [op |-> "none", result |-> "-", cause |-> "-"]

\* A completed call: the error its caller sees ("ok" on return) and the error
\* first thrown inside the call, which a catch block may have replaced.
Done(op, result, cause) == [op |-> op, result |-> result, cause |-> cause]

\* ------------------------------------------------------------ write batch
\* The documents a batch acts on, as one value.
DB == [clubs |-> clubs, members |-> members, stats |-> stats,
       events |-> events, rsvps |-> rsvps]

\* Function f with key k bound to v (created or overwritten).
Put(f, k, v) == [x \in DOMAIN f \cup {k} |-> IF x = k THEN v ELSE f[x]]

\* Function f without key k.
Drop(f, k) == [x \in DOMAIN f \ {k} |-> f[x]]

\* batch.update needs the document to exist; batch.set and batch.delete do not.
WriteAllowed(db, w) ==
  CASE w.kind = "incClub" -> w.key \in DOMAIN db.clubs
    [] w.kind = "incStats" -> w.key \in DOMAIN db.stats
    [] w.kind = "updateRsvp" -> w.key \in DOMAIN db.rsvps
    [] w.kind = "updateEvent" -> w.key \in DOMAIN db.events
    [] OTHER -> TRUE

\* A read-then-write-back counter instead of increment(): of two joinClub
\* calls in flight on one club, the first write is overwritten by the second.
ApplyWriteLosingUpdate(db, w) ==
  IF /\ w.kind \in {"incClub", "incStats"}
     /\ Cardinality({q \in Procs : calls[q].op = "joinClub" /\ calls[q].club = w.key}) > 1
  THEN db
  ELSE
  CASE w.kind = "setClub" -> [db EXCEPT !.clubs = Put(db.clubs, w.key, w.val)]
    [] w.kind = "setMember" -> [db EXCEPT !.members = Put(db.members, w.key, w.val)]
    [] w.kind = "setStats" -> [db EXCEPT !.stats = Put(db.stats, w.key, w.val)]
    [] w.kind = "deleteMember" -> [db EXCEPT !.members = Drop(db.members, w.key)]
    [] w.kind = "incClub" ->
         [db EXCEPT !.clubs[w.key].memberCount = @ + w.by]
    [] w.kind = "incStats" ->
         [db EXCEPT !.stats[w.key].totalMembers = @ + w.by,
                    !.stats[w.key].activeMembers = @ + w.by]
    [] w.kind = "setRsvp" -> [db EXCEPT !.rsvps = Put(db.rsvps, w.key, w.val)]
    [] w.kind = "updateRsvp" -> [db EXCEPT !.rsvps[w.key].status = w.status]
    [] w.kind = "updateEvent" ->
         [db EXCEPT !.events[w.key].currentAttendees = w.currentAttendees]

ApplyWrite(db, w) ==
  CASE w.kind = "setClub" -> [db EXCEPT !.clubs = Put(db.clubs, w.key, w.val)]
    [] w.kind = "setMember" -> [db EXCEPT !.members = Put(db.members, w.key, w.val)]
    [] w.kind = "setStats" -> [db EXCEPT !.stats = Put(db.stats, w.key, w.val)]
    [] w.kind = "deleteMember" -> [db EXCEPT !.members = Drop(db.members, w.key)]
    [] w.kind = "incClub" ->
         [db EXCEPT !.clubs[w.key].memberCount = @ + w.by]
    [] w.kind = "incStats" ->
         [db EXCEPT !.stats[w.key].totalMembers = @ + w.by,
                    !.stats[w.key].activeMembers = @ + w.by]
    [] w.kind = "setRsvp" -> [db EXCEPT !.rsvps = Put(db.rsvps, w.key, w.val)]
    [] w.kind = "updateRsvp" -> [db EXCEPT !.rsvps[w.key].status = w.status]
    [] w.kind = "updateEvent" ->
         [db EXCEPT !.events[w.key].currentAttendees = w.currentAttendees]

RECURSIVE ApplyAll(_, _)
ApplyAll(db, batch) ==
  IF batch = <<>> THEN db
  ELSE ApplyAll(ApplyWrite(db, Head(batch)), Tail(batch))

\* The commit goes through when the store accepts it (ok) and every update
\* in it finds its document.
CommitSucceeds(db, batch, ok) ==
  ok /\ \A i \in 1..Len(batch) : WriteAllowed(db, batch[i])

\* writeBatch(db) ... batch.commit(): all writes or none.
BatchCommit(db, batch, ok) ==
  IF CommitSucceeds(db, batch, ok) THEN ApplyAll(db, batch) ELSE db

\* ------------------------------------------------------------- createClub
\* The record with the permission set of a plain member for every role.
MemberRecordWithMemberPermissions(role) ==
  [role |-> role, status |-> "active", permissions |-> DEFAULT_PERMISSIONS["member"]]

MemberRecord(role) ==
  [role |-> role, status |-> "active", permissions |-> DEFAULT_PERMISSIONS[role]]

\* The batch without the owner's member record.
CreateClubBatchWithoutMember(c, ownerUid, maxM) ==
  << [kind |-> "setClub", key |-> c,
      val |-> [ownerUid |-> ownerUid, status |-> "active",
               memberCount |-> 1, maxMembers |-> maxM]],
     [kind |-> "setStats", key |-> c,
      val |-> [totalMembers |-> 1, activeMembers |-> 1]] >>

CreateClubBatch(c, ownerUid, maxM) ==
  << [kind |-> "setClub", key |-> c,
      val |-> [ownerUid |-> ownerUid, status |-> "active",
               memberCount |-> 1, maxMembers |-> maxM]],
     [kind |-> "setMember", key |-> <<c, ownerUid>>, val |-> MemberRecord("owner")],
     [kind |-> "setStats", key |-> c,
      val |-> [totalMembers |-> 1, activeMembers |-> 1]] >>

\* The first failed check of createClub before the batch, "" when all pass.
\* authUid is auth.currentUser ("" when signed out).
CreateClubRefusal(ownerUid, authUid, verified, tokenOk, nameOk, descOk) ==
  CASE authUid = "" -> "not signed in"
    [] ~verified -> "email not verified"
    [] authUid # ownerUid -> "owner mismatch"
    [] ~tokenOk -> "token refresh failed"
    [] ~nameOk -> "Club name is required"
    [] ~descOk -> "Club description is required"
    [] OTHER -> ""

\* generateClubId: an id no document of the store uses.
FreshClubIds ==
  AllClubIds \ (DOMAIN clubs \cup DOMAIN stats \cup {k[1] : k \in DOMAIN members})

CreateClub(c, ownerUid, authUid, verified, tokenOk, nameOk, descOk, maxM, ok) ==
  LET refusal == CreateClubRefusal(ownerUid, authUid, verified, tokenOk, nameOk, descOk)
      batch == CreateClubBatch(c, ownerUid, maxM)
      db2 == IF refusal = "" THEN BatchCommit(DB, batch, ok) ELSE DB
      result == IF refusal # "" THEN refusal
                ELSE IF CommitSucceeds(DB, batch, ok) THEN "ok"
                ELSE "club creation failed"
  IN /\ c \in FreshClubIds
     /\ clubs' = db2.clubs
     /\ members' = db2.members
     /\ stats' = db2.stats
     /\ last' = Done("createClub", result,
                     CASE result = "ok" -> "-"
                       [] result = "club creation failed" -> "commit"
                       [] OTHER -> result)
     /\ UNCHANGED <<events, rsvps, calls, prevRsvp, storeVars>>

\* --------------------------------------------------------------- getClub
ClubExists(c) == c \in DOMAIN clubs

\* getClub returns the club document, and null when there is none or when
\* the read fails (its catch block returns null): TRUE when it returns one.
getClub(c, readOk) == readOk /\ ClubExists(c)

\* The capacity check with > in place of >=.
ClubIsFullAbove(club) ==
  /\ Len(club.maxMembers) = 1
  /\ club.maxMembers[1] # 0
  /\ club.memberCount > club.maxMembers[1]

\* `club.maxMembers && club.memberCount >= club.maxMembers`: an absent or
\* zero maxMembers is falsy and never makes the club full.
ClubIsFull(club) ==
  /\ Len(club.maxMembers) = 1
  /\ club.maxMembers[1] # 0
  /\ club.memberCount >= club.maxMembers[1]

\* getUserClubRole: the role of the member document, "" (null) without one
\* and when the read fails (its catch block returns null).
getUserClubRole(c, u, readOk) ==
  IF readOk /\ <<c, u>> \in DOMAIN members THEN members[<<c, u>>].role ELSE ""

\* The role stored for user u in club c, "" without a member document.
RoleOf(c, u) == getUserClubRole(c, u, TRUE)

\* A step in which no call completes.
Pending(p, call) ==
  /\ calls' = [calls EXCEPT ![p] = call]
  /\ last' = NoCall
  /\ UNCHANGED <<store, prevRsvp, storeVars>>

\* A call that throws before it writes anything.
Throws(p, done) ==
  /\ calls' = [calls EXCEPT ![p] = Idle]
  /\ last' = done
  /\ UNCHANGED <<store, prevRsvp, storeVars>>

\* `await batch.commit()` of the call of client p, then its return or throw.
Commits(p, batch, ok, done, failure) ==
  LET db2 == BatchCommit(DB, batch, ok)
  IN /\ clubs' = db2.clubs
     /\ members' = db2.members
     /\ stats' = db2.stats
     /\ events' = db2.events
     /\ rsvps' = db2.rsvps
     /\ calls' = [calls EXCEPT ![p] = Idle]
     /\ last' = IF CommitSucceeds(DB, batch, ok) THEN done
                ELSE [done EXCEPT !.result = failure, !.cause = "commit"]
     /\ UNCHANGED storeVars

\* --------------------------------------------------------------- joinClub
\* The batch without the clubStats update.
JoinClubBatchWithoutStats(c, u, role) ==
  << [kind |-> "setMember", key |-> <<c, u>>, val |-> MemberRecord(role)],
     [kind |-> "incClub", key |-> c, by |-> 1] >>

JoinClubBatch(c, u, role) ==
  << [kind |-> "setMember", key |-> <<c, u>>, val |-> MemberRecord(role)],
     [kind |-> "incClub", key |-> c, by |-> 1],
     [kind |-> "incStats", key |-> c, by |-> 1] >>

\* joinClub up to its batch: `await getClub`, then the two checks.
JoinClubRead(p, c, u, role, readOk) ==
  /\ calls[p] = Idle
  /\ ClubExists(c) => clubs[c].memberCount < MaxCount
  /\ IF ~getClub(c, readOk)
     THEN Throws(p, Done("joinClub", "Failed to join club", "Club not found"))
     ELSE IF ClubIsFull(clubs[c])
     THEN Throws(p, Done("joinClub", "Failed to join club", "Club is full"))
     ELSE Pending(p, [op |-> "joinClub", club |-> c, uid |-> u, role |-> role])

JoinClubCommit(p, ok) ==
  /\ calls[p].op = "joinClub"
  /\ UNCHANGED prevRsvp
  /\ LET k == calls[p]
     IN Commits(p, JoinClubBatch(k.club, k.uid, k.role), ok,
                Done("joinClub", "ok", "-"),
                "Failed to join club")

\* -------------------------------------------------------------- leaveClub
\* The batch without the update of the club document.
LeaveBatchWithoutClubCount(c, u) ==
  << [kind |-> "deleteMember", key |-> <<c, u>>],
     [kind |-> "incStats", key |-> c, by |-> -1] >>

LeaveBatch(c, u) ==
  << [kind |-> "deleteMember", key |-> <<c, u>>],
     [kind |-> "incClub", key |-> c, by |-> -1],
     [kind |-> "incStats", key |-> c, by |-> -1] >>

\* Start guard of the calls that lower a club's counters (a model bound).
CountNotBelowZero(c) == ClubExists(c) => clubs[c].memberCount >= 0

\* leaveClub up to its batch without the owner check.
LeaveClubReadWithoutOwnerCheck(p, c, u, readOk) ==
  /\ calls[p] = Idle
  /\ CountNotBelowZero(c)
  /\ IF ~readOk
     THEN Throws(p, Done("leaveClub", "Failed to leave club", "getDoc failed"))
     ELSE IF <<c, u>> \notin DOMAIN members
     THEN Throws(p, Done("leaveClub", "Failed to leave club", "Membership not found"))
     ELSE Pending(p, [op |-> "leaveClub", club |-> c, uid |-> u])

\* leaveClub up to its batch: `await getDoc(memberRef)`, then the two checks.
LeaveClubRead(p, c, u, readOk) ==
  /\ calls[p] = Idle
  /\ CountNotBelowZero(c)
  /\ IF ~readOk
     THEN Throws(p, Done("leaveClub", "Failed to leave club", "getDoc failed"))
     ELSE IF <<c, u>> \notin DOMAIN members
     THEN Throws(p, Done("leaveClub", "Failed to leave club", "Membership not found"))
     ELSE IF members[<<c, u>>].role = "owner"
     THEN Throws(p, Done("leaveClub", "Failed to leave club", "Owner cannot leave club"))
     ELSE Pending(p, [op |-> "leaveClub", club |-> c, uid |-> u])

LeaveClubCommit(p, ok) ==
  /\ calls[p].op = "leaveClub"
  /\ UNCHANGED prevRsvp
  /\ LET k == calls[p]
     IN Commits(p, LeaveBatch(k.club, k.uid), ok,
                Done("leaveClub", "ok", "-"),
                "Failed to leave club")

\* ----------------------------------------------------------- removeMember
\* removeMember rethrows the error it caught, so the caller sees the cause.
RemoveDone(result) ==
  Done("removeMember", result, IF result = "ok" THEN "-" ELSE result)

\* `await getUserClubRole(clubId, adminUid)` and the permission check.
RemoveMemberCheckAdmin(p, c, memberUid, adminUid, readOk) ==
  /\ calls[p] = Idle
  /\ CountNotBelowZero(c)
  /\ IF getUserClubRole(c, adminUid, readOk) \notin {"owner", "organizer"}
     THEN Throws(p, RemoveDone("Insufficient permissions to remove member"))
     ELSE Pending(p, [op |-> "removeMember", stage |-> "checkTarget", club |-> c,
                      memberUid |-> memberUid, adminUid |-> adminUid])

\* `await getUserClubRole(clubId, memberUid)`, the owner check, the self check.
RemoveMemberCheckTarget(p, readOk) ==
  /\ calls[p].op = "removeMember"
  /\ calls[p].stage = "checkTarget"
  /\ LET k == calls[p]
     IN IF getUserClubRole(k.club, k.memberUid, readOk) = "owner"
        THEN Throws(p, RemoveDone("Cannot remove club owner"))
        ELSE IF k.memberUid = k.adminUid
        THEN Throws(p, RemoveDone("Cannot remove yourself"))
        ELSE Pending(p, [k EXCEPT !.stage = "getDoc"])

\* `await getDoc(memberRef)` and the existence check.
RemoveMemberGetDoc(p, readOk) ==
  /\ calls[p].op = "removeMember"
  /\ calls[p].stage = "getDoc"
  /\ LET k == calls[p]
     IN IF ~readOk
        THEN Throws(p, RemoveDone("getDoc failed"))
        ELSE IF <<k.club, k.memberUid>> \notin DOMAIN members
        THEN Throws(p, RemoveDone("Member not found"))
        ELSE Pending(p, [k EXCEPT !.stage = "commit"])

RemoveMemberCommit(p, ok) ==
  /\ calls[p].op = "removeMember"
  /\ calls[p].stage = "commit"
  /\ UNCHANGED prevRsvp
  /\ LET k == calls[p]
     IN Commits(p, LeaveBatch(k.club, k.memberUid), ok,
                RemoveDone("ok"),
                "commit failed")

\* ------------------------------------------------------- updateMemberRole
\* updateDoc(memberRef, {role, permissions, lastActivityAt}): one round trip,
\* refused by the store when the document does not exist.  The service
\* function has no parameter for the identity of its caller.
\* The update applied to every member document of the club.
UpdateMemberRoleOfAll(c, u, newRole, ok) ==
  /\ IF ok /\ <<c, u>> \in DOMAIN members
     THEN /\ members' = [k \in DOMAIN members |->
                           IF k[1] = c
                           THEN [members[k] EXCEPT !.role = newRole,
                                                   !.permissions = DEFAULT_PERMISSIONS[newRole]]
                           ELSE members[k]]
          /\ last' = Done("updateMemberRole", "ok", "-")
     ELSE /\ UNCHANGED members
          /\ last' = Done("updateMemberRole", "Failed to update member role", "updateDoc")
  /\ UNCHANGED <<clubs, stats, events, rsvps, calls, prevRsvp, storeVars>>

UpdateMemberRole(c, u, newRole, ok) ==
  /\ IF ok /\ <<c, u>> \in DOMAIN members
     THEN /\ members' = [members EXCEPT ![<<c, u>>].role = newRole,
                                        ![<<c, u>>].permissions = DEFAULT_PERMISSIONS[newRole]]
          /\ last' = Done("updateMemberRole", "ok", "-")
     ELSE /\ UNCHANGED members
          /\ last' = Done("updateMemberRole", "Failed to update member role", "updateDoc")
  /\ UNCHANGED <<clubs, stats, events, rsvps, calls, prevRsvp, storeVars>>

\* ------------------------------------------------------------- deleteClub
\* deleteClub -> updateClub -> updateDoc(clubRef, {status: 'archived'}).
DeleteClub(c, ok) ==
  /\ IF ok /\ ClubExists(c)
     THEN /\ clubs' = [clubs EXCEPT ![c].status = "archived"]
          /\ last' = Done("deleteClub", "ok", "-")
     ELSE /\ UNCHANGED clubs
          /\ last' = Done("deleteClub", "Failed to delete club", "updateDoc")
  /\ UNCHANGED <<members, stats, events, rsvps, calls, prevRsvp, storeVars>>

\* ------------------------------------------------------------ createEvent
\* addDoc hands out an id no event document uses.
FreshEventIds == {e \in EventIds : e \notin DOMAIN events}

\* createEvent: validateEventData, then addDoc with currentAttendees 0.
CreateEvent(e, valid, ok) ==
  /\ e \in FreshEventIds
  /\ IF valid /\ ok
     THEN /\ events' = Put(events, e, [currentAttendees |-> 0, status |-> "active"])
          /\ last' = Done("createEvent", "ok", "-")
     ELSE /\ UNCHANGED events
          /\ last' = Done("createEvent", IF valid THEN "addDoc failed" ELSE "Validation failed",
                          IF valid THEN "addDoc" ELSE "validation")
  /\ UNCHANGED <<clubs, members, stats, rsvps, calls, prevRsvp, storeVars>>

\* ------------------------------------------------------------- updateRSVP
NoRsvp == [eventId |-> "-", uid |-> "-", status |-> "-"]

\* The validation without the status check.
validateRSVPDataAnyStatus(eventId, uid, status) ==
  /\ eventId # ""
  /\ uid # ""

\* validateRSVPData(eventId, uid, status).isValid
validateRSVPData(eventId, uid, status) ==
  /\ eventId # ""
  /\ uid # ""
  /\ status \in {"going", "not_going"}

\* getDocs(query(rsvps, where('eventId', '==', eventId))): the ids of the
\* documents, which the store returns in id order.
EventRSVPDocs(all, eventId) == {d \in DOMAIN all : all[d].eventId = eventId}

\* allEventRSVPs.docs.filter(doc => doc.data().uid === uid)
ExistingRSVPDocs(all, eventId, uid) ==
  {d \in EventRSVPDocs(all, eventId) : all[d].uid = uid}

\* existingRSVPs.docs[0]
FirstDoc(docs) == CHOOSE d \in docs : \A x \in docs : d <= x

\* doc(collection(db, 'rsvps')): a new id, used by no document and by no
\* batch in flight.
FreshDocIds ==
  {d \in 1..MaxDocs :
     /\ d \notin DOMAIN rsvps
     /\ \A p \in Procs : calls[p].op = "updateRSVP" => calls[p].doc # d}

\* updateRSVP up to its second await: validation, `await getDocs(rsvpQuery)`,
\* and the RSVP write put into the batch (update of the first existing
\* document of this user, or set of a new document).
UpdateRSVPQuery(p, eventId, uid, status, readOk) ==
  /\ calls[p] = Idle
  /\ IF ~validateRSVPData(eventId, uid, status)
     THEN Throws(p, Done("updateRSVP", "RSVP validation failed", "validation"))
     ELSE IF ~readOk
     THEN Throws(p, Done("updateRSVP", "getDocs failed", "getDocs failed"))
     ELSE LET existing == ExistingRSVPDocs(rsvps, eventId, uid)
              call(d, isNew) ==
                [op |-> "updateRSVP", stage |-> "count", eventId |-> eventId, uid |-> uid,
                 status |-> status, doc |-> d, isNew |-> isNew, goingCount |-> 0]
          IN IF existing # {}
             THEN Pending(p, call(FirstDoc(existing), FALSE))
             ELSE \E d \in FreshDocIds : Pending(p, call(d, TRUE))

\* getEventRSVPs(eventId) then the filter of updateEventAttendeeCount: the
\* number of stored RSVP documents of the event with status going.
GoingCount(all, eventId) ==
  Cardinality({d \in EventRSVPDocs(all, eventId) : all[d].status = "going"})

\* `await updateEventAttendeeCount(eventId, batch)`: reads the stored RSVPs
\* and puts the event update into the batch.
UpdateEventAttendeeCount(p, readOk) ==
  /\ calls[p].op = "updateRSVP"
  /\ calls[p].stage = "count"
  /\ IF ~readOk
     THEN Throws(p, Done("updateRSVP", "getDocs failed", "getDocs failed"))
     ELSE Pending(p, [calls[p] EXCEPT !.stage = "commit",
                                      !.goingCount = GoingCount(rsvps, calls[p].eventId)])

\* The batch without the event update (the count written on its own).
UpdateRSVPBatchWithoutEvent(k) ==
  << IF k.isNew
     THEN [kind |-> "setRsvp", key |-> k.doc,
           val |-> [eventId |-> k.eventId, uid |-> k.uid, status |-> k.status]]
     ELSE [kind |-> "updateRsvp", key |-> k.doc, status |-> k.status] >>

UpdateRSVPBatch(k) ==
  << IF k.isNew
     THEN [kind |-> "setRsvp", key |-> k.doc,
           val |-> [eventId |-> k.eventId, uid |-> k.uid, status |-> k.status]]
     ELSE [kind |-> "updateRsvp", key |-> k.doc, status |-> k.status],
     [kind |-> "updateEvent", key |-> k.eventId, currentAttendees |-> k.goingCount] >>

\* `await batch.commit()` of updateRSVP; an error is rethrown as it is.
UpdateRSVPCommit(p, ok) ==
  /\ calls[p].op = "updateRSVP"
  /\ calls[p].stage = "commit"
  /\ LET k == calls[p]
     IN /\ Commits(p, UpdateRSVPBatch(k), ok, Done("updateRSVP", "ok", "-"), "commit failed")
        /\ prevRsvp' = IF CommitSucceeds(DB, UpdateRSVPBatch(k), ok)
                       THEN [eventId |-> k.eventId, uid |-> k.uid, status |-> k.status]
                       ELSE NoRsvp

\* getRSVPSummary(eventId)
getRSVPSummary(all, eventId) ==
  [going |-> GoingCount(all, eventId),
   not_going |-> Cardinality({d \in EventRSVPDocs(all, eventId) : all[d].status = "not_going"}),
   total |-> Cardinality(EventRSVPDocs(all, eventId))]

\* ------------------------------------------------------------- club store
\* The users of the session that holds the club store.
StoreUsers == {"u1", "u2"}

\* Initial state of the store: currentClub null (<<>>), clubMembers [].
EmptyStore == [currentClub |-> <<>>, clubMembers |-> <<>>]

\* permissionCheck before the first checkPermissions call.
NoCheck == <<>>

\* checkPermissions(clubId, uid) on store state st.  member is the cached
\* entry with this clubId and uid; isOwner compares uid with the ownerUid
\* of currentClub, whichever club that is.
checkPermissions(st, clubId, uid) ==
  LET hasMember == <<clubId, uid>> \in DOMAIN st.clubMembers
      member == st.clubMembers[<<clubId, uid>>]
      isOwner == Len(st.currentClub) = 1 /\ st.currentClub[1].ownerUid = uid
  IN [canEdit |-> isOwner \/ (hasMember /\ member.permissions.canEditClub),
      canDelete |-> isOwner,
      canManageMembers |-> isOwner \/ (hasMember /\ member.permissions.canManageMembers),
      canCreateEvents |-> isOwner \/ (hasMember /\ member.permissions.canCreateEvents),
      canViewMembers |-> hasMember,
      isOwner |-> isOwner,
      isOrganizer |-> (hasMember /\ member.role = "organizer") \/ isOwner]

\* A component calls checkPermissions (synchronous, no store change).
CheckPermissions(clubId, uid) ==
  /\ permissionCheck' = <<[clubId |-> clubId, uid |-> uid,
                           result |-> checkPermissions(clubStore, clubId, uid)]>>
  /\ last' = NoCall
  /\ UNCHANGED <<store, calls, prevRsvp, clubStore, eventStore, fetchCall>>

\* The store's getClub: `await getClub(clubId)`, and currentClub is replaced
\* only when a club came back (not found and a failed read leave it as it is).
StoreGetClub(c, readOk) ==
  /\ clubStore' = IF getClub(c, readOk)
                  THEN [clubStore EXCEPT
                          !.currentClub = <<[clubId |-> c, ownerUid |-> clubs[c].ownerUid]>>]
                  ELSE clubStore
  /\ last' = NoCall
  /\ UNCHANGED <<store, calls, prevRsvp, permissionCheck, eventStore, fetchCall>>

\* getClubMembers(clubId): the member documents of the club with status
\* active, [] when the query fails.
getClubMembers(c, readOk) ==
  IF readOk
  THEN [k \in {x \in DOMAIN members : x[1] = c /\ members[x].status = "active"} |-> members[k]]
  ELSE <<>>

\* The store's loadClubMembers: clubMembers is replaced by the query result.
LoadClubMembers(c, readOk) ==
  /\ clubStore' = [clubStore EXCEPT !.clubMembers = getClubMembers(c, readOk)]
  /\ last' = NoCall
  /\ UNCHANGED <<store, calls, prevRsvp, permissionCheck, eventStore, fetchCall>>

\* The store's updateMemberRole: `await updateMemberRole(clubId, uid,
\* newRole)` (the updateDoc of the service), then the cached entry of this
\* club and user gets the new role, `{ ...member, role: newRole }`; a failed
\* updateDoc is rethrown and leaves the cache as it is.
StoreUpdateMemberRole(c, u, newRole, ok) ==
  /\ IF ok /\ <<c, u>> \in DOMAIN members
     THEN /\ members' = [members EXCEPT ![<<c, u>>].role = newRole,
                                        ![<<c, u>>].permissions = DEFAULT_PERMISSIONS[newRole]]
          /\ clubStore' = [clubStore EXCEPT !.clubMembers =
                             [k \in DOMAIN @ |-> IF k = <<c, u>>
                                                 THEN [@[k] EXCEPT !.role = newRole]
                                                 ELSE @[k]]]
          /\ last' = Done("store.updateMemberRole", "ok", "-")
     ELSE /\ UNCHANGED <<members, clubStore>>
          /\ last' = Done("store.updateMemberRole", "Failed to update member role", "updateDoc")
  /\ UNCHANGED <<clubs, stats, events, rsvps, calls, prevRsvp, permissionCheck,
               eventStore, fetchCall>>

\* ------------------------------------------------------------ event store
\* The event store's subscriptions (useEventStore).  listeners holds every
\* onSnapshot listener that subscribeToClubEvents has registered, in order
\* of registration, with the club it watches and how often its unsubscribe
\* function has been called; it is live until the first such call.
\* unsubscribes maps a clubId to the listener whose unsubscribe function the
\* store keeps.
EmptyEventStore == [listeners |-> <<>>, unsubscribes |-> <<>>]

Live(es) == {l \in DOMAIN es.listeners : es.listeners[l].stops = 0}

\* The unsubscribe functions of the listeners in S are called once each.
Stop(listeners, S) ==
  [l \in DOMAIN listeners |->
     IF l \in S THEN [listeners[l] EXCEPT !.stops = @ + 1] ELSE listeners[l]]

\* unsubscribeFromEvents(clubId) on store state es.
unsubscribeFromEvents(es, clubId) ==
  IF clubId \in DOMAIN es.unsubscribes
  THEN [listeners |-> Stop(es.listeners, {es.unsubscribes[clubId]}),
        unsubscribes |-> Drop(es.unsubscribes, clubId)]
  ELSE es

\* subscribeToEvents(clubId): unsubscribeFromEvents(clubId), a new listener
\* from subscribeToClubEvents, its unsubscribe function stored under clubId
\* and returned to the caller.
SubscribeToEvents(clubId) ==
  /\ Len(eventStore.listeners) < MaxListeners
  /\ LET es == unsubscribeFromEvents(eventStore, clubId)
         listener == Len(es.listeners) + 1
     IN eventStore' =
          [listeners |-> Append(es.listeners, [clubId |-> clubId, stops |-> 0]),
           unsubscribes |-> Put(es.unsubscribes, clubId, listener)]
  /\ UNCHANGED <<serviceVars, clubStore, permissionCheck, fetchCall>>

UnsubscribeFromEvents(clubId) ==
  /\ eventStore' = unsubscribeFromEvents(eventStore, clubId)
  /\ UNCHANGED <<serviceVars, clubStore, permissionCheck, fetchCall>>

\* unsubscribeAll(): every stored unsubscribe function is called, then the
\* map is replaced by an empty one.
UnsubscribeAll ==
  /\ eventStore' =
       [listeners |-> Stop(eventStore.listeners,
                           {eventStore.unsubscribes[c] : c \in DOMAIN eventStore.unsubscribes}),
        unsubscribes |-> <<>>]
  /\ UNCHANGED <<serviceVars, clubStore, permissionCheck, fetchCall>>

\* The caller of subscribeToEvents calls the function it got back (the
\* cleanup of EventList does): the listener stops, the store is not told.
ReturnedUnsubscribe(listener) ==
  /\ listener \in DOMAIN eventStore.listeners
  /\ eventStore.listeners[listener].stops < MaxStops
  /\ eventStore' = [eventStore EXCEPT !.listeners = Stop(@, {listener})]
  /\ UNCHANGED <<serviceVars, clubStore, permissionCheck, fetchCall>>

\* ---------------------------------------------------------- fetchWithRetry
\* An error of fetchWithRetry: status <<>> for an error thrown by fetch (no
\* status property), <<n>> for the error made from a response of status n.
NetworkFailure == [status |-> <<>>]

\* What one `await fetch(...)` can give: a thrown error or a response.
FetchOutcomes == {NetworkFailure} \cup {[status |-> <<n>>] : n \in Statuses}

\* response.ok
ResponseOk(outcome) ==
  outcome.status # <<>> /\ outcome.status[1] >= 200 /\ outcome.status[1] <= 299

\* `!error.status || (error.status >= 500 && error.status < 600)`: a missing
\* status and the status 0 are both falsy.
defaultRetryCondition(error) ==
  \/ error.status = <<>>
  \/ error.status[1] = 0
  \/ (error.status[1] >= 500 /\ error.status[1] < 600)

\* The retryCondition option: the default, or a caller's predicate.
retryCondition(cond, error) ==
  CASE cond = "default" -> defaultRetryCondition(error)
    [] cond = "never" -> FALSE
    [] cond = "always" -> TRUE

NoFetch == [stage |-> "idle"]

\* fetchWithRetry(url, options, {maxRetries, retryCondition}) up to the
\* first fetch: attempt = 0, lastError undefined (<<>>).  fetches counts the
\* calls of fetch; result is the response returned or the error thrown.
FetchWithRetry(maxRetries, cond) ==
  /\ fetchCall = NoFetch
  /\ fetchCall' = [stage |-> "fetch", maxRetries |-> maxRetries, cond |-> cond,
                   attempt |-> 0, fetches |-> 0, lastError |-> <<>>, result |-> <<>>]
  /\ UNCHANGED <<serviceVars, clubStore, permissionCheck, eventStore>>

\* One pass of the loop body: `await fetch(...)` settles with outcome.  An
\* ok response is returned.  Otherwise the error becomes lastError and the
\* loop goes on to the delay if attempts remain and retryCondition accepts
\* the error, else the error is thrown (an error made from a response is
\* thrown inside the try block and tested again, alike, by the catch block).
FetchAttempt(outcome) ==
  /\ fetchCall.stage = "fetch"
  /\ fetchCall' =
       IF ResponseOk(outcome)
       THEN [fetchCall EXCEPT !.stage = "returned", !.fetches = @ + 1,
                              !.result = <<outcome>>]
       ELSE IF /\ fetchCall.attempt < fetchCall.maxRetries
               /\ retryCondition(fetchCall.cond, outcome)
       THEN [fetchCall EXCEPT !.stage = "delay", !.fetches = @ + 1,
                              !.lastError = <<outcome>>]
       ELSE [fetchCall EXCEPT !.stage = "thrown", !.fetches = @ + 1,
                              !.lastError = <<outcome>>, !.result = <<outcome>>]
  /\ UNCHANGED <<serviceVars, clubStore, permissionCheck, eventStore>>

\* `await delay(retryDelay * 2^attempt); continue`: the timer fires and the
\* loop starts its next pass.
FetchDelay ==
  /\ fetchCall.stage = "delay"
  /\ fetchCall' = [fetchCall EXCEPT !.attempt = @ + 1, !.stage = "fetch"]
  /\ UNCHANGED <<serviceVars, clubStore, permissionCheck, eventStore>>

Init ==
  /\ clubs = <<>>
  /\ members = <<>>
  /\ stats = <<>>
  /\ events = <<>>
  /\ rsvps = <<>>
  /\ prevRsvp = NoRsvp
  /\ calls = [p \in Procs |-> Idle]
  /\ last = NoCall
  /\ clubStore = EmptyStore
  /\ permissionCheck = NoCheck
  /\ eventStore = EmptyEventStore
  /\ fetchCall = NoFetch

\* One client's calls, each running from its first await to its last, with
\* the single-round-trip calls (createClub, updateMemberRole, deleteClub) of
\* any client in between.
Next ==
  \/ \E c \in ClubIds, o \in Creators, a \in Users \cup {""}, maxM \in MaxMembersInputs :
       \E v \in BOOLEAN, t \in BOOLEAN, n \in BOOLEAN, d \in BOOLEAN, ok \in BOOLEAN :
         CreateClub(c, o, a, v, t, n, d, maxM, ok)
  \/ \E c \in ClubIds, u \in Users, r \in Roles, ok \in BOOLEAN :
       JoinClubRead("p1", c, u, r, ok)
  \/ \E ok \in BOOLEAN : JoinClubCommit("p1", ok)
  \/ \E c \in ClubIds, u \in Users, ok \in BOOLEAN : LeaveClubRead("p1", c, u, ok)
  \/ \E ok \in BOOLEAN : LeaveClubCommit("p1", ok)
  \/ \E c \in ClubIds, m \in Users, a \in Users, ok \in BOOLEAN :
       RemoveMemberCheckAdmin("p1", c, m, a, ok)
  \/ \E ok \in BOOLEAN : RemoveMemberCheckTarget("p1", ok)
  \/ \E ok \in BOOLEAN : RemoveMemberGetDoc("p1", ok)
  \/ \E ok \in BOOLEAN : RemoveMemberCommit("p1", ok)
  \/ \E c \in ClubIds, u \in Users, r \in Roles, ok \in BOOLEAN :
       UpdateMemberRole(c, u, r, ok)
  \/ \E c \in ClubIds, ok \in BOOLEAN : DeleteClub(c, ok)

Spec == Init /\ [][Next]_vars

\* Two clients whose joinClub (default role), leaveClub and removeMember
\* calls overlap at every await.
NextConcurrent ==
  \/ \E c \in ClubIds, o \in Creators, maxM \in MaxMembersInputs, ok \in BOOLEAN :
       CreateClub(c, o, o, TRUE, TRUE, TRUE, TRUE, maxM, ok)
  \/ \E p \in Procs, c \in ClubIds, u \in Users, ok \in BOOLEAN :
       JoinClubRead(p, c, u, "member", ok)
  \/ \E p \in Procs, ok \in BOOLEAN : JoinClubCommit(p, ok)
  \/ \E p \in Procs, c \in ClubIds, u \in Users, ok \in BOOLEAN :
       LeaveClubRead(p, c, u, ok)
  \/ \E p \in Procs, ok \in BOOLEAN : LeaveClubCommit(p, ok)
  \/ \E p \in Procs, c \in ClubIds, m \in Users, a \in Users, ok \in BOOLEAN :
       RemoveMemberCheckAdmin(p, c, m, a, ok)
  \/ \E p \in Procs, ok \in BOOLEAN : RemoveMemberCheckTarget(p, ok)
  \/ \E p \in Procs, ok \in BOOLEAN : RemoveMemberGetDoc(p, ok)
  \/ \E p \in Procs, ok \in BOOLEAN : RemoveMemberCommit(p, ok)

SpecConcurrent == Init /\ [][NextConcurrent]_vars
\* The event service with one client: updateRSVP calls one after another.
NextAttendance ==
  \/ \E e \in EventIds, valid \in BOOLEAN, ok \in BOOLEAN : CreateEvent(e, valid, ok)
  \/ \E e \in EventIds \cup {""}, u \in Attendees \cup {""}, st \in StatusInputs,
        ok \in BOOLEAN : UpdateRSVPQuery("p1", e, u, st, ok)
  \/ \E ok \in BOOLEAN : UpdateEventAttendeeCount("p1", ok)
  \/ \E ok \in BOOLEAN : UpdateRSVPCommit("p1", ok)

SpecAttendance == Init /\ [][NextAttendance]_vars

\* Two clients whose updateRSVP calls for one event overlap at every await.
NextAttendanceConcurrent ==
  \/ \E ok \in BOOLEAN : CreateEvent("e1", TRUE, ok)
  \/ \E p \in Procs, u \in Attendees, st \in {"going", "not_going"}, ok \in BOOLEAN :
       UpdateRSVPQuery(p, "e1", u, st, ok)
  \/ \E p \in Procs, ok \in BOOLEAN : UpdateEventAttendeeCount(p, ok)
  \/ \E p \in Procs, ok \in BOOLEAN : UpdateRSVPCommit(p, ok)

SpecAttendanceConcurrent == Init /\ [][NextAttendanceConcurrent]_vars

\* One browser session with its club store, over two clubs created by the
\* session's users; members arrive in the first club through joinClub calls
\* of one client.
NextStore ==
  \/ \E c \in AllClubIds, o \in StoreUsers, ok \in BOOLEAN :
       CreateClub(c, o, o, TRUE, TRUE, TRUE, TRUE, <<>>, ok)
  \/ \E c \in ClubIds, u \in StoreUsers, r \in {"member", "organizer"} :
       JoinClubRead("p1", c, u, r, TRUE)
  \/ JoinClubCommit("p1", TRUE)
  \/ \E c \in AllClubIds, ok \in BOOLEAN : StoreGetClub(c, ok)
  \/ \E c \in AllClubIds, ok \in BOOLEAN : LoadClubMembers(c, ok)
  \/ \E c \in AllClubIds, u \in StoreUsers : CheckPermissions(c, u)

SpecStore == Init /\ [][NextStore]_vars

\* The club store's member cache under role changes: one club, its owner and
\* one more user, role changes made through the store.
NextStoreRoles ==
  \/ \E ok \in BOOLEAN : CreateClub("c1", "u1", "u1", TRUE, TRUE, TRUE, TRUE, <<>>, ok)
  \/ \E r \in {"member", "organizer"} : JoinClubRead("p1", "c1", "u2", r, TRUE)
  \/ \E ok \in BOOLEAN : JoinClubCommit("p1", ok)
  \/ \E ok \in BOOLEAN : LoadClubMembers("c1", ok)
  \/ \E u \in StoreUsers, r \in Roles, ok \in BOOLEAN : StoreUpdateMemberRole("c1", u, r, ok)
  \/ \E u \in StoreUsers : CheckPermissions("c1", u)

SpecStoreRoles == Init /\ [][NextStoreRoles]_vars

\* The event store's subscription functions called in any order, with the
\* holders of returned unsubscribe functions calling them at any time.
NextEventStore ==
  \/ \E c \in AllClubIds : SubscribeToEvents(c)
  \/ \E c \in AllClubIds : UnsubscribeFromEvents(c)
  \/ UnsubscribeAll
  \/ \E l \in 1..MaxListeners : ReturnedUnsubscribe(l)

SpecEventStore == Init /\ [][NextEventStore]_vars

\* One fetchWithRetry call with any options and any outcome of each fetch.
NextFetch ==
  \/ \E m \in 0..MaxRetries, cond \in RetryConditions : FetchWithRetry(m, cond)
  \/ \E o \in FetchOutcomes : FetchAttempt(o)
  \/ FetchDelay

\* Every fetch settles and every delay timer fires.
SpecFetch ==
  /\ Init
  /\ [][NextFetch]_vars
  /\ WF_vars(\E o \in FetchOutcomes : FetchAttempt(o))
  /\ WF_vars(FetchDelay)

\* ================================================================= claims

\* ClubMember records of club c with status active, counted in store m.
ActiveMembers(m, c) ==
  Cardinality({u \in Users : <<c, u>> \in DOMAIN m /\ m[<<c, u>>].status = "active"})

\* ClubMember records of club c with role owner, counted in store m.
OwnerCount(m, c) ==
  Cardinality({u \in Users : <<c, u>> \in DOMAIN m /\ m[<<c, u>>].role = "owner"})

\* C1: for every club, memberCount equals the number of its ClubMember
\* records with status active, after every sequence of joinClub / leaveClub /
\* removeMember calls.
C1_MemberCountMatchesRecords ==
  \A c \in DOMAIN clubs : clubs[c].memberCount = ActiveMembers(members, c)

\* C2: when an updateRSVP call has returned, every event's currentAttendees
\* equals the number of its RSVP records with status going, the record
\* written by that call included.
C2_AttendeesMatchGoingRecords ==
  (last.op = "updateRSVP" /\ last.result = "ok") =>
    \A e \in DOMAIN events : events[e].currentAttendees = GoingCount(rsvps, e)

\* C3: a removeMember or updateMemberRole call never takes an active club
\* with exactly one owner record to zero owner records or to two.
C3_OneOwnerPreserved ==
  [][ last'.op \in {"removeMember", "updateMemberRole"} =>
        \A c \in DOMAIN clubs :
          (clubs[c].status = "active" /\ OwnerCount(members, c) = 1)
            => OwnerCount(members', c) = 1 ]_vars

\* C4: a club with maxMembers = N never has memberCount above N, whatever
\* the interleaving of the joinClub calls.
C4_CapacityNeverExceeded ==
  \A c \in DOMAIN clubs :
    Len(clubs[c].maxMembers) = 1 => clubs[c].memberCount <= clubs[c].maxMembers[1]

\* C5: with an organizer as the caller, updateMemberRole to organizer or owner
\* and removeMember of an organizer or owner end in the permission error and
\* change no document.
C5_OrganizerBoundary ==
  [][ /\ \A c \in ClubIds, u \in Users, r \in {"organizer", "owner"}, ok \in BOOLEAN :
           ( (\E a \in Users : RoleOf(c, a) = "organizer")
             /\ UpdateMemberRole(c, u, r, ok) )
           => (last'.result # "ok" /\ UNCHANGED store)
      /\ \A p \in Procs :
           ( /\ calls[p].op = "removeMember"
             /\ calls'[p] = Idle
             /\ last'.op = "removeMember"
             /\ RoleOf(calls[p].club, calls[p].adminUid) = "organizer"
             /\ RoleOf(calls[p].club, calls[p].memberUid) \in {"organizer", "owner"} )
           => ( /\ last'.result = "Insufficient permissions to remove member"
                /\ UNCHANGED store ) ]_vars

\* C6: an updateRSVP call that repeats the arguments of the call that
\* returned just before it leaves one RSVP record for the pair and leaves the
\* RSVP records and currentAttendees as the first call left them.
C6_RepeatedRsvpChangesNothing ==
  [][ ( /\ calls["p1"].op = "updateRSVP"
        /\ last'.op = "updateRSVP"
        /\ last'.result = "ok"
        /\ prevRsvp = [eventId |-> calls["p1"].eventId, uid |-> calls["p1"].uid,
                       status |-> calls["p1"].status] )
      => ( /\ Cardinality(ExistingRSVPDocs(rsvps', prevRsvp.eventId, prevRsvp.uid)) = 1
           /\ rsvps' = rsvps
           /\ events' = events ) ]_vars

\* A createClub step that wrote: the club (active, memberCount 1), the
\* creator's owner record and the stats (1, 1) of one fresh id, nothing else.
CreateClubWroteAllThree ==
  \E c \in ClubIds \ DOMAIN clubs, o \in Users, maxM \in MaxMembersInputs :
    /\ clubs' = Put(clubs, c, [ownerUid |-> o, status |-> "active",
                               memberCount |-> 1, maxMembers |-> maxM])
    /\ members' = Put(members, <<c, o>>,
                      [role |-> "owner", status |-> "active",
                       permissions |-> DEFAULT_PERMISSIONS["owner"]])
    /\ <<c, o>> \notin DOMAIN members
    /\ stats' = Put(stats, c, [totalMembers |-> 1, activeMembers |-> 1])
    /\ c \notin DOMAIN stats

CountersMoved(c, d) ==
  /\ clubs' = [clubs EXCEPT ![c].memberCount = @ + d]
  /\ stats' = [stats EXCEPT ![c].totalMembers = @ + d, ![c].activeMembers = @ + d]

\* C8: the commit of a joinClub, leaveClub or removeMember call applies the
\* member write and all three counter changes, or, when it fails, none of
\* them.
C8_MembershipWriteAllOrNothing ==
  [][ \A p \in Procs :
        ( /\ calls[p].op \in {"joinClub", "leaveClub", "removeMember"}
          /\ calls'[p] = Idle
          /\ last'.op = calls[p].op
          /\ last'.cause \in {"-", "commit"} )
        => LET k == calls[p]
           IN IF last'.result = "ok"
              THEN IF k.op = "joinClub"
                   THEN /\ members' = Put(members, <<k.club, k.uid>>, MemberRecord(k.role))
                        /\ CountersMoved(k.club, 1)
                   ELSE /\ members' = Drop(members,
                                           <<k.club, IF k.op = "leaveClub" THEN k.uid
                                                     ELSE k.memberUid>>)
                        /\ CountersMoved(k.club, -1)
              ELSE UNCHANGED store ]_vars

C8_Witness ==
  /\ last.op = "leaveClub"
  /\ last.result = "ok"
  /\ \E c \in DOMAIN clubs : clubs[c].memberCount = stats[c].activeMembers

\* C9: a joinClub call by a user who has an active member record of the club
\* fails and writes nothing.
C9_JoinByMemberRefused ==
  [][ ( /\ calls["p1"].op = "joinClub"
        /\ last'.op = "joinClub"
        /\ <<calls["p1"].club, calls["p1"].uid>> \in DOMAIN members
        /\ members[<<calls["p1"].club, calls["p1"].uid>>].status = "active" )
      => (last'.result # "ok" /\ UNCHANGED store) ]_vars

\* C10: once the updateRSVP calls have completed there is at most one RSVP
\* record per (event, user), and currentAttendees counts no user twice (it
\* is at most the number of users who answered the event).
C10_OneRsvpPerPerson ==
  (\A p \in Procs : calls[p] = Idle) =>
    \A e \in DOMAIN events :
      /\ \A u \in Attendees : Cardinality(ExistingRSVPDocs(rsvps, e, u)) <= 1
      /\ events[e].currentAttendees <=
           Cardinality({u \in Attendees : ExistingRSVPDocs(rsvps, e, u) # {}})

\* A step in which client p1 starts a call of operation op: the call is
\* refused at once or is in flight afterwards.
Starts(op) ==
  /\ calls["p1"] = Idle
  /\ last'.op = op \/ calls'["p1"].op = op

\* C11: a removeMember call in which the club owner is both the caller and
\* the target, once past the permission check, ends as "Cannot remove
\* yourself" (no other error) and writes nothing; a leaveClub call by the
\* owner is refused as "Owner cannot leave club" and writes nothing.
C11_OwnerSelfRemovalRefused ==
  [][ /\ \A p \in Procs :
           ( /\ calls[p].op = "removeMember"
             /\ calls'[p] = Idle
             /\ last'.op = "removeMember"
             /\ calls[p].memberUid = calls[p].adminUid
             /\ RoleOf(calls[p].club, calls[p].adminUid) = "owner" )
           => (last'.result = "Cannot remove yourself" /\ UNCHANGED store)
      /\ \A c \in ClubIds, u \in Users :
           (Starts("leaveClub") /\ RoleOf(c, u) = "owner" /\ LeaveClubRead("p1", c, u, TRUE))
           => (last'.cause = "Owner cannot leave club" /\ UNCHANGED store) ]_vars

\* A club whose maxMembers is set and whose memberCount has reached it.
AtCapacity(club) ==
  Len(club.maxMembers) = 1 /\ club.memberCount >= club.maxMembers[1]

\* C12: with calls running one after another, a joinClub call on a club
\* whose maxMembers is set and whose memberCount is at or above it is
\* rejected and leaves the counters and the member records unchanged, and no
\* joinClub call succeeds on such a club.
C12_FullClubRejectsJoin ==
  [][ /\ Starts("joinClub") =>
           \A c \in ClubIds, u \in Users, r \in Roles, ok \in BOOLEAN :
             (ClubExists(c) /\ AtCapacity(clubs[c]) /\ JoinClubRead("p1", c, u, r, ok))
             => (last'.op = "joinClub" /\ last'.result # "ok" /\ UNCHANGED store)
      /\ (calls["p1"].op = "joinClub" /\ last'.op = "joinClub" /\ last'.result = "ok")
           => ~AtCapacity(clubs[calls["p1"].club]) ]_vars

C12_Witness ==
  /\ last.op = "joinClub"
  /\ last.cause = "Club is full"
  /\ \E c \in DOMAIN clubs :
       /\ clubs[c].maxMembers = <<2>>
       /\ clubs[c].memberCount = 2
       /\ ActiveMembers(members, c) = 2

\* C13: a leaveClub call by a user who has no member record of the club, or
\* whose record has role owner, fails and writes nothing: the member records
\* and the three counters stay as they were.
C13_LeaveRefusedWithoutWrite ==
  [][ Starts("leaveClub") =>
        \A c \in ClubIds, u \in Users, ok \in BOOLEAN :
          (RoleOf(c, u) \in {"", "owner"} /\ LeaveClubRead("p1", c, u, ok))
          => ( /\ last'.op = "leaveClub"
               /\ last'.result # "ok"
               /\ calls'["p1"] = Idle
               /\ UNCHANGED store ) ]_vars

C13_Witness ==
  /\ last.op = "leaveClub"
  /\ last.cause = "Owner cannot leave club"
  /\ \E c \in DOMAIN clubs : OwnerCount(members, c) = 1 /\ ActiveMembers(members, c) = 2

\* The users with an RSVP record of event e whose status is st.
Answered(e, st) ==
  {u \in Attendees :
     \E d \in DOMAIN rsvps : rsvps[d] = [eventId |-> e, uid |-> u, status |-> st]}

\* C14: getRSVPSummary(eventId) returns going = the number of RSVP records of
\* the event with status going, not_going = the number with status
\* not_going and total = the number of its RSVP records, and going +
\* not_going = total in every reachable state.
C14_SummaryCountsRecords ==
  \A e \in EventIds :
    LET s == getRSVPSummary(rsvps, e)
    IN /\ s.going = Cardinality(Answered(e, "going"))
       /\ s.not_going = Cardinality(Answered(e, "not_going"))
       /\ s.total = Cardinality({d \in DOMAIN rsvps : rsvps[d].eventId = e})
       /\ s.going + s.not_going = s.total

\* u1 going, u2 going, then u1 not_going: the summary is {1, 1, 2}.
C14_Witness ==
  /\ last.op = "updateRSVP"
  /\ last.result = "ok"
  /\ prevRsvp = [eventId |-> "e1", uid |-> "u1", status |-> "not_going"]
  /\ Answered("e1", "going") = {"u2"}
  /\ getRSVPSummary(rsvps, "e1") = [going |-> 1, not_going |-> 1, total |-> 2]

\* C15: in every reachable state totalMembers = activeMembers = memberCount
\* for each club, and every step changes the three by the same amount.
C15_StatsInLockstep ==
  /\ [] (\A c \in DOMAIN clubs :
           /\ c \in DOMAIN stats
           /\ stats[c].totalMembers = clubs[c].memberCount
           /\ stats[c].activeMembers = clubs[c].memberCount)
  /\ [][ \A c \in DOMAIN clubs :
           /\ c \in DOMAIN clubs' /\ c \in DOMAIN stats'
           /\ stats'[c].totalMembers - stats[c].totalMembers
                = clubs'[c].memberCount - clubs[c].memberCount
           /\ stats'[c].activeMembers - stats[c].activeMembers
                = clubs'[c].memberCount - clubs[c].memberCount ]_vars

C15_Witness ==
  /\ last.op = "removeMember"
  /\ last.result = "ok"
  /\ \E c \in DOMAIN clubs :
       /\ clubs[c].memberCount = 2
       /\ stats[c] = [totalMembers |-> 2, activeMembers |-> 2]

\* C16: an updateMemberRole call changes at most the role and permissions of
\* its target's member record: the club's memberCount, the stats counters,
\* the set of member records and every other member's record are unchanged.
C16_RoleChangeFrame ==
  [][ last'.op = "updateMemberRole" =>
        /\ clubs' = clubs
        /\ stats' = stats
        /\ DOMAIN members' = DOMAIN members
        /\ \E c \in ClubIds, u \in Users :
             \A k \in DOMAIN members :
               IF k = <<c, u>>
               THEN /\ members'[k].status = members[k].status
                    /\ members'[k].permissions = DEFAULT_PERMISSIONS[members'[k].role]
                         \/ members'[k] = members[k]
               ELSE members'[k] = members[k] ]_vars

C16_Witness ==
  /\ last.op = "updateMemberRole"
  /\ last.result = "ok"
  /\ \E c \in DOMAIN clubs :
       /\ clubs[c].memberCount = 2
       /\ ActiveMembers(members, c) = 2
       /\ \E u \in Users : RoleOf(c, u) = "organizer"

\* C17: a joinClub call succeeds only on a club whose status is active, and
\* a joinClub call made on an archived club is rejected and writes nothing
\* (no member record, no counter change).
C17_ArchivedClubRejectsJoin ==
  [][ /\ Starts("joinClub") =>
           \A c \in ClubIds, u \in Users, r \in Roles, ok \in BOOLEAN :
             ( /\ ClubExists(c)
               /\ clubs[c].status = "archived"
               /\ JoinClubRead("p1", c, u, r, ok) )
             => (last'.op = "joinClub" /\ last'.result # "ok" /\ UNCHANGED store)
      /\ (calls["p1"].op = "joinClub" /\ last'.op = "joinClub" /\ last'.result = "ok")
           => clubs[calls["p1"].club].status = "active" ]_vars

\* C18: an updateMemberRole call requested by an actor whose role in the
\* club is member or guest, by a non-member, or by the target, is refused by
\* the service and changes no record.  The service function takes no actor,
\* so a call with given arguments is the same step whoever requests it.
C18_RoleChangeAuthorized ==
  [][ last'.op = "updateMemberRole" =>
        \A c \in ClubIds, actor \in Users, u \in Users, r \in Roles, ok \in BOOLEAN :
          ( /\ RoleOf(c, actor) \in {"member", "guest", ""} \/ actor = u
            /\ UpdateMemberRole(c, u, r, ok) )
          => (last'.result # "ok" /\ UNCHANGED store) ]_vars

\* C19: a removeMember call by an actor whose role is member, guest or absent
\* fails with the permission error; a call whose target is the club's owner
\* (role owner) or has no member record fails; a failed call writes nothing;
\* and a call deletes a record only when the actor is owner or organizer and
\* the target exists, is not the owner and is not the actor.
C19_RemoveMemberChecks ==
  [][ /\ Starts("removeMember") =>
           \A c \in ClubIds, m \in Users, a \in Users, ok \in BOOLEAN :
             ( /\ RoleOf(c, a) \notin {"owner", "organizer"}
               /\ RemoveMemberCheckAdmin("p1", c, m, a, ok) )
             => ( /\ last'.op = "removeMember"
                  /\ last'.result = "Insufficient permissions to remove member"
                  /\ UNCHANGED store )
      /\ \A p \in Procs :
           (calls[p].op = "removeMember" /\ calls'[p] = Idle /\ last'.op = "removeMember")
           => LET k == calls[p]
                  target == RoleOf(k.club, k.memberUid)
              IN /\ (target = "owner" /\ clubs[k.club].ownerUid = k.memberUid)
                      => last'.result # "ok"
                 /\ target = "" => last'.result # "ok"
                 /\ last'.result # "ok" => UNCHANGED store
                 /\ last'.result = "ok" =>
                      /\ RoleOf(k.club, k.adminUid) \in {"owner", "organizer"}
                      /\ k.memberUid # k.adminUid
                      /\ members' = Drop(members, <<k.club, k.memberUid>>) ]_vars

\* C20: the permission table grants canEditClub to owner only, and
\* canManageMembers and canCreateEvents to owner and organizer only (member
\* and guest get none of them), and checkPermissions(clubId, uid) reports
\* canDelete only when uid is the owner of the club clubId.
C20_PermissionTable ==
  /\ \A r \in Roles :
       /\ DEFAULT_PERMISSIONS[r].canEditClub <=> r = "owner"
       /\ DEFAULT_PERMISSIONS[r].canManageMembers <=> r \in {"owner", "organizer"}
       /\ DEFAULT_PERMISSIONS[r].canCreateEvents <=> r \in {"owner", "organizer"}
  /\ \A i \in DOMAIN permissionCheck :
       LET check == permissionCheck[i]
       IN (check.result.canDelete /\ ClubExists(check.clubId))
            => clubs[check.clubId].ownerUid = check.uid

\* ------------------------------------------------------------------------
\* The four refusals of the membership ledger.
LedgerErrorKinds ==
  {"Club not found", "Club is full", "Membership not found", "Owner cannot leave club"}

\* C21: a joinClub or leaveClub call that fails for one of the ledger's
\* reasons (club not found, club full, membership not found, owner cannot
\* leave) shows that reason to its caller as the error it throws, and every
\* failed joinClub or leaveClub call leaves the stored documents unchanged.
C21_FailureKindObservable ==
  [][(last'.op \in {"joinClub", "leaveClub"} /\ last'.result # "ok")
       => /\ UNCHANGED store
          /\ last'.cause \in LedgerErrorKinds => last'.result = last'.cause]_vars

\* C22: with calls of several clients interleaved in any order, the commit
\* of every successful joinClub call on a club without maxMembers raises
\* memberCount, totalMembers and activeMembers by exactly one over their
\* values at the commit, whatever another joinClub call in flight read or
\* wrote, so k successful joins raise each counter by exactly k.
C22_ConcurrentJoinsAllCounted ==
  [][ \A p \in Procs :
        ( /\ calls[p].op = "joinClub"
          /\ calls'[p] = Idle
          /\ last'.op = "joinClub"
          /\ last'.result = "ok"
          /\ clubs[calls[p].club].maxMembers = <<>> )
        => CountersMoved(calls[p].club, 1) ]_vars

\* Two joinClub calls by different users overlapped on a club without
\* maxMembers: one has committed while the other, which started before that
\* commit, has not yet written its record.
C22_Witness ==
  /\ last.op = "joinClub"
  /\ last.result = "ok"
  /\ \E q \in Procs, c \in DOMAIN clubs :
       /\ calls[q].op = "joinClub"
       /\ calls[q].club = c
       /\ <<c, calls[q].uid>> \notin DOMAIN members
       /\ clubs[c].maxMembers = <<>>
       /\ clubs[c].memberCount = 2
       /\ stats[c] = [totalMembers |-> 2, activeMembers |-> 2]
       /\ Cardinality({k \in DOMAIN members : k[1] = c}) = 2

\* C23: a successful joinClub call by the club's owner leaves the owner's
\* member record with role owner, and a successful joinClub call by any other
\* user leaves that user without a record of role owner, whatever role the
\* call was given.
C23_JoinKeepsOwner ==
  [][ \A p \in Procs :
        ( /\ calls[p].op = "joinClub"
          /\ calls'[p] = Idle
          /\ last'.op = "joinClub"
          /\ last'.result = "ok" )
        => LET c == calls[p].club
               key == <<calls[p].club, calls[p].uid>>
           IN IF calls[p].uid = clubs[c].ownerUid
              THEN (key \in DOMAIN members /\ members[key].role = "owner")
                     => (key \in DOMAIN members' /\ members'[key].role = "owner")
              ELSE key \in DOMAIN members' => members'[key].role # "owner" ]_vars

\* C24: in every state, with leaveClub and removeMember calls of several
\* clients interleaved in any order, each club's memberCount, totalMembers and
\* activeMembers are at least zero and at least the number of the club's
\* stored member records.
C24_CountCoversRecords ==
  \A c \in DOMAIN clubs \cap DOMAIN stats :
    LET records == Cardinality({k \in DOMAIN members : k[1] = c})
    IN /\ clubs[c].memberCount >= 0
       /\ clubs[c].memberCount >= records
       /\ stats[c].totalMembers >= 0
       /\ stats[c].totalMembers >= records
       /\ stats[c].activeMembers >= 0
       /\ stats[c].activeMembers >= records

\* C25: an updateRSVP call for an eventId without an Event document ends
\* with an error, and the step that ends it writes nothing: neither an RSVP
\* record nor a counter.
C25_RsvpNeedsEvent ==
  [][ \A p \in Procs :
        ( /\ calls[p].op = "updateRSVP"
          /\ calls'[p] = Idle
          /\ calls[p].eventId \notin DOMAIN events )
        => /\ last'.op = "updateRSVP"
           /\ last'.result # "ok"
           /\ UNCHANGED store ]_vars

\* An updateRSVP call reached its commit while no Event document existed,
\* the commit was refused and no RSVP record is stored.
C25_Witness ==
  /\ last.op = "updateRSVP"
  /\ last.cause = "commit"
  /\ events = <<>>
  /\ rsvps = <<>>

\* C26: in every state every stored member record carries the permission
\* set that DEFAULT_PERMISSIONS gives to the record's current role.
C26_PermissionsFollowRole ==
  \A k \in DOMAIN members : members[k].permissions = DEFAULT_PERMISSIONS[members[k].role]

\* A role change has just succeeded, and the club holds a record made by
\* joinClub with a role other than member next to the changed record.
C26_Witness ==
  /\ last.op = "updateMemberRole"
  /\ last.result = "ok"
  /\ \E k1 \in DOMAIN members, k2 \in DOMAIN members :
       /\ k1[2] = clubs[k1[1]].ownerUid
       /\ members[k1].role = "organizer"
       /\ k2[1] = k1[1]
       /\ members[k2].role = "guest"

\* C27: after a successful updateMemberRole of the club store, the cached
\* clubMembers entry of the member whose stored record the call changed has
\* the role and the permission set of the stored record.
C27_CacheFollowsRoleChange ==
  [][ (last'.op = "store.updateMemberRole" /\ last'.result = "ok")
        => \A k \in DOMAIN members \cap DOMAIN clubStore'.clubMembers :
             members'[k] # members[k]
               => /\ clubStore'.clubMembers[k].role = members'[k].role
                  /\ clubStore'.clubMembers[k].permissions = members'[k].permissions ]_vars

\* C28: whenever checkPermissions(clubId, uid) has answered for an existing
\* club, it reports isOwner or canDelete only if uid is the ownerUid of the
\* club with that clubId, and it reports canEdit, canManageMembers or
\* canCreateEvents only if uid is that owner or the cached member entry of
\* (clubId, uid) carries the permission.
C28_OwnershipOfAskedClub ==
  \A i \in DOMAIN permissionCheck :
    LET check == permissionCheck[i]
        key == <<check.clubId, check.uid>>
        owns == clubs[check.clubId].ownerUid = check.uid
        cached(perm) == key \in DOMAIN clubStore.clubMembers
                          /\ clubStore.clubMembers[key].permissions[perm]
    IN ClubExists(check.clubId)
         => /\ check.result.isOwner => owns
            /\ check.result.canDelete => owns
            /\ check.result.canEdit => (owns \/ cached("canEditClub"))
            /\ check.result.canManageMembers => (owns \/ cached("canManageMembers"))
            /\ check.result.canCreateEvents => (owns \/ cached("canCreateEvents"))

\* C29: in every state of the event store at most one listener per clubId
\* is live, unsubscribes has an entry for a clubId exactly when a listener of
\* that club is live, and no listener's unsubscribe function has been called
\* more than once; and after an unsubscribeAll call no listener is live.
C29_ListenersMatchMap ==
  /\ [](\A c \in AllClubIds :
          LET liveOfClub == {l \in Live(eventStore) : eventStore.listeners[l].clubId = c}
          IN /\ Cardinality(liveOfClub) <= 1
             /\ c \in DOMAIN eventStore.unsubscribes <=> liveOfClub # {})
  /\ [](\A l \in DOMAIN eventStore.listeners : eventStore.listeners[l].stops <= 1)
  /\ [][UnsubscribeAll => Live(eventStore') = {}]_vars

\* C30: a fetchWithRetry call calls fetch at most maxRetries + 1 times and
\* ends, returning an ok response or throwing its last error; a failed
\* attempt whose error retryCondition rejects (with the default condition:
\* every response whose status is not in 500..599) ends the call with that
\* error, and with the default condition a network error or a 5xx response
\* goes on to another attempt while attempt < maxRetries.
C30_BoundedRetries ==
  /\ [](fetchCall.stage # "idle" =>
          /\ fetchCall.fetches <= fetchCall.maxRetries + 1
          /\ fetchCall.stage = "returned" => ResponseOk(fetchCall.result[1])
          /\ fetchCall.stage = "thrown" =>
               (fetchCall.lastError # <<>> /\ fetchCall.result = fetchCall.lastError))
  /\ [][ (fetchCall.stage = "fetch" /\ fetchCall'.stage # "returned")
           => LET error == fetchCall'.lastError[1]
                  isResponse == error.status # <<>>
                  is5xx == isResponse /\ error.status[1] >= 500 /\ error.status[1] <= 599
              IN /\ ~retryCondition(fetchCall.cond, error) => fetchCall'.stage = "thrown"
                 /\ (fetchCall.cond = "default" /\ isResponse /\ ~is5xx)
                      => fetchCall'.stage = "thrown"
                 /\ ( /\ fetchCall.cond = "default"
                      /\ (~isResponse \/ is5xx)
                      /\ fetchCall.attempt < fetchCall.maxRetries )
                      => fetchCall'.stage = "delay" ]_vars
  /\ [][ fetchCall.stage \in {"returned", "thrown"} => fetchCall' = fetchCall ]_vars
  /\ (fetchCall.stage \in {"fetch", "delay"}) ~> (fetchCall.stage \in {"returned", "thrown"})
====
